---- MODULE Spec2Model ----
(***************************************************************************)
(* Model of lang/LangPrimSource/PyrSerialPrim.cpp: the SerialPort engine   *)
(* (boost::asio serial_port + lock-free SPSC byte queue) and the six       *)
(* language primitives that drive it.                                      *)
(*                                                                         *)
(* Two threads take steps: the language thread, which runs one primitive   *)
(* (or one public SerialPort method) per step, and the io_service thread,  *)
(* which runs SerialPort::doRead one statement group per step, so that     *)
(* pops by the language thread interleave with the pushes of the handler.  *)
(***************************************************************************)
EXTENDS Integers, Sequences, FiniteSets, TLC

(* ------------------------------ bounds --------------------------------- *)
\* capacity of the rx queue and size of the scratch buffer; 8192 in the
\* source (line 48), scaled down so that overflow is reachable
kBufferSize == 2
\* total number of bytes the completions of one engine may deliver
MaxArrived == 3
\* number of asynchronous operations outstanding at once on one engine
MaxOps == 2
\* number of completion handlers still queued for released engines
MaxZombies == 1
\* largest parity code passed to _SerialPort_Open (the codes with a meaning
\* are 0, 1 and 2)
MaxParity == 3

(* --------------------------- value domains ----------------------------- *)
\* byte values found in the scratch buffer (two distinct values of 0..255)
Bytes == {65, 66}
\* indeterminate contents of the never-initialised int m_rxErrors[2]: the
\* two slots happen to be equal, or they differ
Garbage == {<<0, 0>>, <<0, 1>>}
\* indeterminate contents of the never-written m_rxbuffer: alternating bytes,
\* or the same byte everywhere
RxBufferContents ==
    {[i \in 1..kBufferSize |-> IF i % 2 = 1 THEN 65 ELSE 66],
     [i \in 1..kBufferSize |-> 66]}
\* integer argument of _SerialPort_Put; 321 = 0x141 exercises val & 0xFF
PutVals == {321}

Min(a, b) == IF a < b THEN a ELSE b
Max(a, b) == IF a > b THEN a ELSE b

\* SerialPort::Options as filled in by prSerialPort_Open
NoOptions == [stop_bits |-> "two", parity |-> "none", flow_control |-> "hardware"]

\* mutant: the codes of even and odd parity exchanged
asParityType_Swapped(i) ==
    CASE i = 0 -> "none"
      [] i = 1 -> "odd"
      [] i = 2 -> "even"
      [] OTHER -> "none"

\* asParityType
asParityType(i) ==
    CASE i = 0 -> "none"
      [] i = 1 -> "even"
      [] i = 2 -> "odd"
      [] OTHER -> "none"

(* ------------------------------- state --------------------------------- *)
VARIABLES
    slot,        \* slots[0] of the host object: "nil" or "ptr" (a SerialPort*)
    m_port,      \* "none" (no engine), "open" or "closed" (after stop())
    m_options,   \* SerialPort::m_options
    m_rxErrors,  \* <<m_rxErrors[0], m_rxErrors[1]>> = <<lastQueried, total>>
    m_rxfifo,    \* contents of the spsc_queue, oldest first
    m_rxbuffer,  \* the scratch buffer handed to the asynchronous operation
    ops,         \* outstanding asynchronous operations of the engine, by kind
    zombies,     \* operations whose handler is bound to a deleted engine
    ioPc,        \* position of the io thread inside doRead
    ioErr,       \* the error argument of the doRead call in progress
    ioN,         \* bytesTransferred of the completion being handled
    ioIdx,       \* loop index of doRead
    handles,     \* number of open OS device handles
    crashed,     \* std::terminate was called
    ret,         \* outcome of the last primitive
    arrived,     \* history: bytes of all successful completions, in order
    readOut,     \* history: bytes returned by get, in order
    rxErrors0,   \* history: value m_rxErrors[1] had at construction
    sinceQuery,  \* history: overflow events since the last rxErrors()
    m_obj,       \* SerialPort::m_obj: "obj" (the host object) or "null"
    gLangMutex,  \* "free", or "io" while the io thread holds it
    ioCalls,     \* runInterpreter calls made by the doRead call in progress
    devTook,     \* history: bytes the device took from asynchronous operations
    devGave      \* history: bytes the device put into m_rxbuffer

engineVars == <<m_port, m_options, m_rxErrors, m_rxfifo, m_rxbuffer, ops>>
ioVars == <<ioPc, ioErr, ioN, ioIdx, zombies>>
hostVars == <<slot, handles, crashed>>
histVars == <<arrived, readOut, rxErrors0, sinceQuery>>
auxVars == <<m_obj, gLangMutex, ioCalls, devTook, devGave>>
vars == <<engineVars, ioVars, hostVars, histVars, ret, auxVars>>

OpKinds == {"live", "cancelled", "dead"}
NoOps == [k \in OpKinds |-> 0]
Outstanding == ops["live"] + ops["cancelled"] + ops["dead"]

\* outcome of a primitive: the error code it returns ("exception" when a C++
\* exception leaves it, "terminate" when std::terminate ends the process) and
\* the value it stores in the receiver slot: tag "none" when it stores nothing,
\* else "nil", "int" (val), "true" or "false"; and what it did on the device:
\* the number of write_some calls, the bytes the device took, the byte offered
NoWrite == [attempts |-> 0, accepted |-> 0, byte |-> 0]
Result(o, r, t, v) == [op |-> o, res |-> r, tag |-> t, val |-> v, wr |-> NoWrite]
NoRet == Result("none", "errNone", "none", 0)
Status(o, r) == Result(o, r, "none", 0)

EmptyBuffer == [i \in 1..kBufferSize |-> 65]

Init ==
    /\ slot = "nil"
    /\ m_port = "none"
    /\ m_options = NoOptions
    /\ m_rxErrors = <<0, 0>>
    /\ m_rxfifo = <<>>
    /\ m_rxbuffer = EmptyBuffer
    /\ ops = NoOps
    /\ zombies = 0
    /\ ioPc = "idle"
    /\ ioErr = "none"
    /\ ioN = 0
    /\ ioIdx = 0
    /\ handles = 0
    /\ crashed = FALSE
    /\ ret = NoRet
    /\ arrived = <<>>
    /\ readOut = <<>>
    /\ rxErrors0 = 0
    /\ sinceQuery = 0
    /\ m_obj = "null"
    /\ gLangMutex = "free"
    /\ ioCalls = 0
    /\ devTook = <<>>
    /\ devGave = <<>>

\* The interpreter holds gLangMutex while it runs a primitive (and the owner
\* of an engine runs on the language thread too): a step of the language
\* thread needs the mutex free.
LangThreadRuns == ~crashed /\ gLangMutex = "free"

\* mutant: the slot is taken for a pointer without the NotPtr test
getSerialPort_NoCheck == "port"

\* mutant: no slot content counts as an engine
getSerialPort_NoEngine == "NULL"

\* getSerialPort: NULL unless slots[0] holds a pointer
getSerialPort == IF slot = "nil" THEN "NULL" ELSE "port"

(* ------------------------- the SPSC byte queue -------------------------- *)
\* mutant: a push that puts the new byte in front of the older ones
FifoPush_Prepend(q, b) ==
    IF Len(q) < kBufferSize
        THEN [ok |-> TRUE, q |-> <<b>> \o q]
        ELSE [ok |-> FALSE, q |-> q]

\* mutant: a push that overwrites the oldest byte when the queue is full
FifoPush_Overwrite(q, b) ==
    IF Len(q) < kBufferSize
        THEN [ok |-> TRUE, q |-> Append(q, b)]
        ELSE [ok |-> TRUE, q |-> Append(Tail(q), b)]

\* spsc_queue::push: refuses (returns false) when the queue holds kBufferSize
FifoPush(q, b) ==
    IF Len(q) < kBufferSize
        THEN [ok |-> TRUE, q |-> Append(q, b)]
        ELSE [ok |-> FALSE, q |-> q]

\* mutant: a pop that takes the newest element
FifoPop_Newest(q) ==
    IF q = <<>>
        THEN [ok |-> FALSE, byte |-> 0, q |-> q]
        ELSE [ok |-> TRUE, byte |-> q[Len(q)], q |-> SubSeq(q, 1, Len(q) - 1)]

\* mutant: a pop that returns the oldest element and leaves it in the queue
FifoPop_KeepsByte(q) ==
    IF q = <<>>
        THEN [ok |-> FALSE, byte |-> 0, q |-> q]
        ELSE [ok |-> TRUE, byte |-> Head(q), q |-> q]

\* spsc_queue::pop: refuses when empty, otherwise removes the oldest element
FifoPop(q) ==
    IF q = <<>>
        THEN [ok |-> FALSE, byte |-> 0, q |-> q]
        ELSE [ok |-> TRUE, byte |-> Head(q), q |-> Tail(q)]

(* ------------------------------ the engine ------------------------------ *)
\* SerialPort::SerialPort.  m_port(ioService, serialport) opens the device and
\* throws when it cannot; each of the five set_option calls throws when the
\* device rejects the option, and unwinding then destroys m_port, which closes
\* the handle.  e.rejected is the index of the rejected option, 0 for none.
\* The body is empty after the set_option calls: startRead() is not called.
SerialPortCtor(e) ==
    IF ~e.devOpens THEN [thrown |-> TRUE, handle |-> 0, armed |-> 0]
    ELSE IF e.rejected # 0 THEN [thrown |-> TRUE, handle |-> 0, armed |-> 0]
    ELSE [thrown |-> FALSE, handle |-> 1, armed |-> 0]

\* mutant: a startRead() that starts two operations
startRead_Twice(o, port) ==
    IF port = "open"
        THEN [o EXCEPT !["live"] = @ + 2]
        ELSE [o EXCEPT !["dead"] = @ + 2]

\* SerialPort::startRead: one more asynchronous operation on m_port.  Started
\* on a closed port it completes at once with bad_descriptor ("dead").
startRead(o, port) ==
    IF port = "open"
        THEN [o EXCEPT !["live"] = @ + 1]
        ELSE [o EXCEPT !["dead"] = @ + 1]

\* mutant: the error branch returns without arming another operation
doReadError_GivesUp(o, port) == o

\* lines 181-186, the error branch of doRead: whatever the error is, the
\* handler calls startRead() and returns
doReadError(o, port) == startRead(o, port)

\* SerialPort::stop: m_port.cancel() then m_port.close().  cancel() is the
\* throwing overload and reports bad_descriptor on a port that is not open, so
\* a second stop() throws before it reaches close().
stop(port, o) ==
    IF port = "open"
        THEN [thrown |-> FALSE, port |-> "closed",
              ops |-> [o EXCEPT !["live"] = 0, !["cancelled"] = @ + o["live"]]]
        ELSE [thrown |-> TRUE, port |-> port, ops |-> o]

\* mutant: <= sizeof(byte) where the source has == sizeof(byte)
put_AtMostOne(accepted) == accepted <= 1

\* SerialPort::put: true iff write_some reports sizeof(byte) bytes written
put(accepted) == accepted = 1

\* SerialPort::rxErrors: <<result, new m_rxErrors>>
rxErrors(e) == [res |-> e[2] - e[1], errs |-> <<e[2], e[2]>>]

(* ----------------------------- primitives ------------------------------ *)
\* arguments of _SerialPort_Open: nameOk, baudOk, charsizeOk and parityOk say
\* whether slotStrVal / slotIntVal accept the argument slot
GoodArgs ==
    [nameOk |-> TRUE, baudOk |-> TRUE, charsizeOk |-> TRUE, charsize |-> 8,
     stopTwo |-> FALSE, parityOk |-> TRUE, parity |-> 0, xonxoff |-> FALSE]
\* the argument lists tried: the good one, and each defect on its own
OpenArgs ==
    {GoodArgs,
     [GoodArgs EXCEPT !.nameOk = FALSE],
     [GoodArgs EXCEPT !.baudOk = FALSE],
     [GoodArgs EXCEPT !.charsizeOk = FALSE],
     [GoodArgs EXCEPT !.charsize = 9],
     [GoodArgs EXCEPT !.parityOk = FALSE]}
\* the device: whether it opens, and which set_option call it rejects (0: none)
OpenEnvs == {e \in [devOpens : BOOLEAN, rejected : 0..5] :
                ~e.devOpens => e.rejected = 0}
GoodEnv == [devOpens |-> TRUE, rejected |-> 0]
\* the calls tried: a good device with each argument list, each device with
\* the good argument list
OpenCases ==
    {<<a, GoodEnv>> : a \in OpenArgs} \cup {<<GoodArgs, e>> : e \in OpenEnvs}

\* the options prSerialPort_Open builds from its arguments (lines 274-284)
OptionsOf(a) ==
    [stop_bits |-> IF a.stopTwo THEN "two" ELSE "one",
     parity |-> asParityType(a.parity),
     flow_control |-> IF a.xonxoff THEN "software" ELSE "hardware"]

\* what prSerialPort_Open does with arguments a on a device behaving as e:
\* an error code it returns, "exception" when a C++ exception leaves it
OpenOutcome(a, e) ==
    IF getSerialPort # "NULL" THEN "errFailed"
    ELSE IF ~a.nameOk THEN "errWrongType"
    ELSE IF ~a.baudOk THEN "errWrongType"
    ELSE IF ~a.charsizeOk THEN "errWrongType"
    \* serial_port::character_size{charsize} throws std::out_of_range outside
    \* 5..8, and line 272 is not inside the try block
    ELSE IF a.charsize < 5 \/ a.charsize > 8 THEN "exception"
    ELSE IF ~a.parityOk THEN "errWrongType"
    ELSE IF SerialPortCtor(e).thrown THEN "errFailed"
    ELSE "errNone"

prSerialPort_Open(a, e) ==
    /\ LangThreadRuns
    /\ LET out == OpenOutcome(a, e)
           reachedCtor == /\ getSerialPort = "NULL" /\ a.nameOk
                          /\ a.baudOk /\ a.charsizeOk
                          /\ a.charsize \in 5..8 /\ a.parityOk
           c == SerialPortCtor(e)
       IN  /\ ret' = Status("open", out)
           /\ handles' = IF reachedCtor THEN handles + c.handle ELSE handles
           /\ IF out = "errNone"
                 THEN /\ slot' = "ptr"
                      /\ m_port' = "open"
                      /\ m_options' = OptionsOf(a)
                      /\ m_rxfifo' = <<>>
                      /\ \E g \in Garbage :
                            /\ m_rxErrors' = g
                            /\ rxErrors0' = g[2]
                      /\ m_rxbuffer' \in RxBufferContents
                      /\ ops' = [NoOps EXCEPT !["live"] = c.armed]
                      /\ arrived' = <<>>
                      /\ readOut' = <<>>
                      /\ sinceQuery' = 0
                      /\ m_obj' = "obj"
                      /\ devTook' = <<>>
                      /\ devGave' = <<>>
                 ELSE UNCHANGED <<slot, engineVars, histVars, m_obj, devTook,
                                  devGave>>
    /\ UNCHANGED <<ioVars, crashed, gLangMutex, ioCalls>>

prSerialPort_Close ==
    /\ LangThreadRuns
    /\ IF getSerialPort = "NULL"
          THEN /\ ret' = Status("close", "errFailed")
               /\ UNCHANGED <<m_port, ops, handles>>
          ELSE LET s == stop(m_port, ops)
               IN  /\ m_port' = s.port
                   /\ ops' = s.ops
                   /\ handles' = IF s.thrown THEN handles ELSE handles - 1
                   /\ ret' = Status("close",
                                    IF s.thrown THEN "exception" ELSE "errNone")
    /\ UNCHANGED <<slot, m_options, m_rxErrors, m_rxfifo, m_rxbuffer, ioVars,
                   crashed, histVars, auxVars>>

\* delete port runs ~SerialPort, which calls stop(); an exception leaving a
\* destructor calls std::terminate.  Otherwise the engine is released while
\* the handlers of its cancelled operations, and a handler that is running,
\* still hold the pointer.
prSerialPort_Cleanup ==
    /\ LangThreadRuns
    /\ IF getSerialPort = "NULL"
          THEN /\ ret' = Status("cleanup", "errFailed")
               /\ UNCHANGED <<slot, engineVars, ioVars, handles, crashed,
                              histVars, auxVars>>
          ELSE LET s == stop(m_port, ops)
               IN  IF s.thrown
                      THEN /\ crashed' = TRUE
                           /\ ret' = Status("cleanup", "terminate")
                           /\ UNCHANGED <<slot, engineVars, ioVars, handles,
                                          histVars, auxVars>>
                      ELSE /\ zombies + Outstanding <= MaxZombies
                           /\ zombies' = zombies + Outstanding
                           /\ ioPc' = IF ioPc = "idle" THEN "idle" ELSE "freed"
                           /\ ioErr' = "none"
                           /\ ioN' = 0
                           /\ ioIdx' = 0
                           /\ handles' = handles - 1
                           /\ slot' = "nil"
                           /\ m_port' = "none"
                           /\ m_options' = NoOptions
                           /\ m_rxErrors' = <<0, 0>>
                           /\ m_rxfifo' = <<>>
                           /\ m_rxbuffer' = EmptyBuffer
                           /\ ops' = NoOps
                           /\ arrived' = <<>>
                           /\ readOut' = <<>>
                           /\ rxErrors0' = 0
                           /\ sinceQuery' = 0
                           /\ m_obj' = "null"
                           /\ ioCalls' = 0
                           /\ devTook' = <<>>
                           /\ devGave' = <<>>
                           /\ ret' = Status("cleanup", "errNone")
                           /\ UNCHANGED <<crashed, gLangMutex>>

prSerialPort_Next ==
    /\ LangThreadRuns
    /\ IF getSerialPort = "NULL"
          THEN /\ ret' = Status("next", "errFailed")
               /\ UNCHANGED <<m_rxfifo, readOut>>
          ELSE LET p == FifoPop(m_rxfifo)
               IN  /\ m_rxfifo' = p.q
                   /\ readOut' = IF p.ok THEN Append(readOut, p.byte) ELSE readOut
                   /\ ret' = IF p.ok
                                THEN Result("next", "errNone", "int", p.byte % 256)
                                ELSE Result("next", "errNone", "nil", 0)
    /\ UNCHANGED <<slot, m_port, m_options, m_rxErrors, m_rxbuffer, ops, ioVars,
                   handles, crashed, arrived, rxErrors0, sinceQuery, auxVars>>

\* src is a char or an int (val), or something else (isNum FALSE).  The
\* device takes the byte (accepted = 1), takes nothing (0), or write_some
\* fails, which the throwing overload reports by an exception, as it does for
\* every write on a closed port.
prSerialPort_Put(val, isNum, accepted, devError) ==
    /\ LangThreadRuns
    /\ IF getSerialPort = "NULL"
          THEN ret' = Status("put", "errFailed")
          ELSE IF ~isNum
          THEN ret' = Status("put", "errWrongType")
          ELSE IF m_port # "open" \/ devError
          THEN ret' = [Status("put", "exception") EXCEPT
                          !.wr = [attempts |-> 1, accepted |-> 0,
                                  byte |-> val % 256]]
          ELSE ret' = [Result("put", "errNone",
                              IF put(accepted) THEN "true" ELSE "false", 0)
                          EXCEPT !.wr = [attempts |-> 1, accepted |-> accepted,
                                         byte |-> val % 256]]
    /\ UNCHANGED <<engineVars, ioVars, hostVars, histVars, auxVars>>

prSerialPort_RXErrors ==
    /\ LangThreadRuns
    /\ IF getSerialPort = "NULL"
          THEN /\ ret' = Status("rxErrors", "errFailed")
               /\ UNCHANGED <<m_rxErrors, sinceQuery>>
          ELSE LET r == rxErrors(m_rxErrors)
               IN  /\ m_rxErrors' = r.errs
                   /\ sinceQuery' = 0
                   /\ ret' = Result("rxErrors", "errNone", "int", r.res)
    /\ UNCHANGED <<slot, m_port, m_options, m_rxfifo, m_rxbuffer, ops, ioVars,
                   handles, crashed, arrived, readOut, rxErrors0, auxVars>>

(* ------------------- public method called by the owner ------------------ *)
\* SerialPort::startRead is public and has no caller outside doRead: the
\* owner of an engine arms the loop by calling it.
StartRead ==
    /\ LangThreadRuns
    /\ m_port # "none"
    /\ Outstanding < MaxOps
    /\ ops' = startRead(ops, m_port)
    /\ UNCHANGED <<m_port, m_options, m_rxErrors, m_rxfifo, m_rxbuffer, ioVars,
                   hostVars, histVars, ret, auxVars>>

(* ------------------------ io thread: doRead ----------------------------- *)
\* line 98: the asynchronous operation startRead() starts on m_port with
\* buffer(m_rxbuffer, kBufferSize)
AsyncOp == "async_write_some"

\* what the device may hold ready for a read
DeviceData ==
    {[i \in 1..kBufferSize |-> 65],
     [i \in 1..kBufferSize |-> IF i % 2 = 1 THEN 66 ELSE 65]}

\* A completion with n bytes transferred: async_read_some stores n bytes of
\* the device's data d in the buffer; async_write_some hands the first n bytes
\* of the buffer to the device and leaves the buffer as it is.
Transfer(op, n, buf, d) ==
    IF op = "async_read_some"
        THEN [buf |-> [i \in 1..kBufferSize |-> IF i <= n THEN d[i] ELSE buf[i]],
              gave |-> [i \in 1..n |-> d[i]],
              took |-> <<>>]
        ELSE [buf |-> buf,
              gave |-> <<>>,
              took |-> [i \in 1..n |-> buf[i]]]

\* the bytes doRead takes from the scratch buffer for bytesTransferred = n
Batch(buf, n) == [i \in 1..n |-> buf[i]]

\* The io_service runs the handler of one completed operation.  A live
\* operation completes with n bytes or with an error; a cancelled one with
\* operation_aborted, or with n bytes when it had completed before cancel();
\* a dead one with bad_descriptor.  Lines 181-183 and the entry of the loop.
ErrorOf(k) ==
    CASE k = "live" -> "io_error"
      [] k = "cancelled" -> "operation_aborted"
      [] k = "dead" -> "bad_descriptor"

DoReadBegin(k, err, n) ==
    /\ ~crashed
    /\ ioPc = "idle"
    /\ ops[k] > 0
    /\ k = "dead" => err
    /\ ops' = [ops EXCEPT ![k] = @ - 1]
    /\ IF err
          THEN /\ ioPc' = "error"
               /\ ioErr' = ErrorOf(k)
               /\ UNCHANGED <<ioN, ioIdx, arrived, m_rxbuffer, devTook, devGave>>
          ELSE /\ Len(arrived) + n <= MaxArrived
               /\ ioPc' = "push"
               /\ ioErr' = "none"
               /\ ioN' = n
               /\ ioIdx' = 0
               /\ \E d \in DeviceData :
                     LET t == Transfer(AsyncOp, n, m_rxbuffer, d)
                     IN  /\ m_rxbuffer' = t.buf
                         /\ devTook' = devTook \o t.took
                         /\ devGave' = devGave \o t.gave
                         /\ arrived' = arrived \o Batch(t.buf, n)
    /\ UNCHANGED <<m_port, m_options, m_rxErrors, m_rxfifo, zombies,
                   hostVars, readOut, rxErrors0, sinceQuery, ret, m_obj,
                   gLangMutex, ioCalls>>

\* mutant: the loop stops one iteration early
LoopDone_OneEarly(index, n) == index + 1 >= n

\* line 188: the loop runs while index != bytesTransferred
LoopDone(index, n) == index = n

\* one iteration of the loop of lines 188-193
DoReadPush ==
    /\ ~crashed
    /\ ioPc = "push"
    /\ ~LoopDone(ioIdx, ioN)
    /\ LET byte == m_rxbuffer[ioIdx + 1]
           p == FifoPush(m_rxfifo, byte)
       IN  /\ m_rxfifo' = p.q
           /\ m_rxErrors' = IF p.ok THEN m_rxErrors
                            ELSE <<m_rxErrors[1], m_rxErrors[2] + 1>>
           /\ sinceQuery' = IF p.ok THEN sinceQuery ELSE sinceQuery + 1
    /\ ioIdx' = ioIdx + 1
    /\ UNCHANGED <<m_port, m_options, m_rxbuffer, ops, ioPc, ioErr, ioN,
                   zombies, hostVars, arrived, readOut, rxErrors0, ret, auxVars>>

\* mutant: dataAvailable returns without unlocking
gLangMutexUnlock_Skipped == "io"

\* line 151: gLangMutex.unlock()
gLangMutexUnlock == "free"

\* lines 195 and 142: after the loop has ended doRead calls dataAvailable(),
\* which first waits for gLangMutex
DataAvailableLock ==
    /\ ~crashed
    /\ ioPc = "push"
    /\ LoopDone(ioIdx, ioN)
    /\ gLangMutex = "free"
    /\ gLangMutex' = "io"
    /\ ioPc' = "locked"
    /\ UNCHANGED <<engineVars, ioErr, ioN, ioIdx, zombies, hostVars, histVars,
                   ret, m_obj, ioCalls, devTook, devGave>>

\* lines 143-150: with a host object, runInterpreter(g, s_dataAvailable, 1)
DataAvailableCall ==
    /\ ~crashed
    /\ ioPc = "locked"
    /\ ioCalls' = IF m_obj # "null" THEN ioCalls + 1 ELSE ioCalls
    /\ ioPc' = "called"
    /\ UNCHANGED <<engineVars, ioErr, ioN, ioIdx, zombies, hostVars, histVars,
                   ret, m_obj, gLangMutex, devTook, devGave>>

\* line 151: gLangMutex.unlock(), and dataAvailable returns
DataAvailableUnlock ==
    /\ ~crashed
    /\ ioPc = "called"
    /\ gLangMutex' = gLangMutexUnlock
    /\ ioPc' = "rearm"
    /\ UNCHANGED <<engineVars, ioErr, ioN, ioIdx, zombies, hostVars, histVars,
                   ret, m_obj, ioCalls, devTook, devGave>>

\* line 195: dataAvailable()
DoReadNotify ==
    \/ DataAvailableLock
    \/ DataAvailableCall
    \/ DataAvailableUnlock

\* lines 184 and 197: startRead() ends both branches of the handler
DoReadRearm ==
    /\ ~crashed
    /\ ioPc \in {"error", "rearm"}
    /\ Outstanding < MaxOps
    /\ ops' = IF ioPc = "error" THEN doReadError(ops, m_port)
                                ELSE startRead(ops, m_port)
    /\ ioPc' = "idle"
    /\ ioErr' = "none"
    /\ ioN' = 0
    /\ ioIdx' = 0
    /\ ioCalls' = 0
    /\ UNCHANGED <<m_port, m_options, m_rxErrors, m_rxfifo, m_rxbuffer, zombies,
                   hostVars, histVars, ret, m_obj, gLangMutex, devTook, devGave>>

\* A handler bound to a deleted engine runs (or a running one continues): it
\* reads and writes released memory.  The behaviour is undefined; the outcomes
\* kept apart are that the handler ends and that the process dies (a handler
\* that arms another operation with the dangling pointer leaves the state as
\* it is).
DoReadFreed(outcome) ==
    /\ ~crashed
    /\ \/ ioPc = "freed"
       \/ ioPc = "idle" /\ zombies > 0
    /\ IF outcome = "dies"
          THEN /\ crashed' = TRUE
               /\ UNCHANGED <<ioPc, zombies>>
          ELSE /\ UNCHANGED crashed
               /\ ioPc' = "idle"
               /\ zombies' = IF ioPc = "freed" THEN zombies ELSE zombies - 1
    /\ UNCHANGED <<engineVars, ioErr, ioN, ioIdx, slot, handles, histVars, ret,
                   auxVars>>

Next ==
    \/ \E c \in OpenCases : prSerialPort_Open(c[1], c[2])
    \/ prSerialPort_Close
    \/ prSerialPort_Cleanup
    \/ prSerialPort_Next
    \/ \E val \in PutVals, isNum \in BOOLEAN, accepted \in 0..1,
          devError \in BOOLEAN : prSerialPort_Put(val, isNum, accepted, devError)
    \/ prSerialPort_RXErrors
    \/ StartRead
    \/ \E k \in OpKinds, err \in BOOLEAN, n \in 0..kBufferSize :
          DoReadBegin(k, err, n)
    \/ DoReadPush
    \/ DataAvailableLock
    \/ DataAvailableCall
    \/ DataAvailableUnlock
    \/ DoReadRearm
    \/ \E outcome \in {"ends", "dies"} : DoReadFreed(outcome)

Spec == Init /\ [][Next]_vars

(* ------------------ the option arguments of open, in full ---------------- *)
\* parity codes passed as args+6: one below 0, the three with a meaning, and
\* those above
ParityCodes == -1..MaxParity
\* argument lists that differ in args+5 (stop bits), args+6 (parity) and
\* args+8 (xonxoff); the other arguments are accepted
OptionArgs ==
    {[GoodArgs EXCEPT !.stopTwo = s, !.parity = p, !.xonxoff = x] :
        s \in BOOLEAN, p \in ParityCodes, x \in BOOLEAN}

\* open with every combination of options on a device that accepts them,
\* followed by close and cleanup so that the host object can be opened again
NextOpen ==
    \/ \E a \in OptionArgs : prSerialPort_Open(a, GoodEnv)
    \/ prSerialPort_Close
    \/ prSerialPort_Cleanup

SpecOpen == Init /\ [][NextOpen]_vars

(* ========================= properties of the engine ===================== *)
\* number of bytes of the completed batches that doRead has pushed so far
Pushed == Len(arrived) - (IF ioPc = "push" THEN ioN - ioIdx ELSE 0)
\* overflow events counted since the engine was constructed
Overflows == m_rxErrors[2] - rxErrors0

AnyPut ==
    \E val \in PutVals, isNum \in BOOLEAN, accepted \in 0..1,
       devError \in BOOLEAN : prSerialPort_Put(val, isNum, accepted, devError)

\* C1: once the engine is stopped the completion handler arms no read: when
\* the handler of a read that was armed before stop() (cancelled by it, or
\* completed but not yet handled) ends on the stopped engine, it leaves the
\* outstanding operations as they were.
C1_NoRearmAfterStop ==
    [][(m_port = "closed" /\ ioErr # "bad_descriptor" /\ DoReadRearm)
          => ops' = ops]_vars

\* C2: a successful open leaves the new engine with the port open and one
\* asynchronous read outstanding.
C2_OpenArmsRead ==
    [][\A c \in OpenCases :
          (prSerialPort_Open(c[1], c[2]) /\ ret'.res = "errNone")
              => (m_port' = "open" /\ ops'["live"] = 1)]_vars

\* C3: stop() on an engine that is already stopped raises nothing: close after
\* close and cleanup after close both return errNone, and the second close
\* leaves the engine as it was.
C3_StopIdempotent ==
    [][(m_port = "closed" /\ (prSerialPort_Close \/ prSerialPort_Cleanup))
          => /\ ret'.res = "errNone"
             /\ ~crashed'
             /\ prSerialPort_Close => UNCHANGED engineVars]_vars

\* C4: on a stopped engine every next returns nil and every put returns false
\* or an error code; no exception leaves either primitive.
C4_AfterStopDefined ==
    [][/\ (m_port = "closed" /\ prSerialPort_Next)
             => (ret'.res = "errNone" /\ ret'.tag = "nil")
       /\ (m_port = "closed" /\ AnyPut)
             => (ret'.res # "exception" /\ ret'.tag # "true")]_vars

\* C5: as long as the queue has never overflowed, the bytes returned by get
\* followed by the bytes still queued are exactly the bytes pushed so far, in
\* the order of the completed batches; so the bytes returned are a prefix of
\* the concatenation of the batches.
C5_FifoOrder ==
    (m_port # "none" /\ Overflows = 0)
        => /\ readOut \o m_rxfifo = SubSeq(arrived, 1, Pushed)
           /\ Len(readOut) <= Len(arrived)
           /\ readOut = SubSeq(arrived, 1, Len(readOut))

C5_Witness ==
    /\ m_port # "none" /\ Overflows = 0
    /\ Len(readOut) >= 2 /\ readOut[1] # readOut[2]
    /\ Len(arrived) > Len(readOut)

\* C6: before any byte has been read, the queue holds the first kBufferSize
\* bytes pushed, unaltered, and the counter has grown by exactly the number of
\* bytes pushed beyond kBufferSize; the handler is never kept from pushing.
C6_OverflowCounted ==
    /\ (m_port # "none" /\ readOut = <<>>)
          => /\ m_rxfifo = SubSeq(arrived, 1, Min(Pushed, kBufferSize))
             /\ Overflows = Max(0, Pushed - kBufferSize)
    /\ (m_port # "none" /\ ioPc = "push" /\ ~LoopDone(ioIdx, ioN) /\ ~crashed)
          => ENABLED DoReadPush

C6_Witness ==
    /\ m_port # "none" /\ readOut = <<>> /\ ioPc = "idle"
    /\ Len(arrived) > kBufferSize
    /\ Overflows = Len(arrived) - kBufferSize
    /\ Len(m_rxfifo) = kBufferSize

\* C7: rxErrors returns the number of overflow events since the previous
\* rxErrors call on the engine, or since its construction.
C7_RXErrorsDelta ==
    [][(slot = "ptr" /\ prSerialPort_RXErrors) => ret'.val = sinceQuery]_vars

\* the ways an open fails that C8 is about: the device does not open, the
\* device rejects an option, the option value itself is rejected
OpenRejected(a, e) ==
    ~e.devOpens \/ e.rejected # 0 \/ a.charsize < 5 \/ a.charsize > 8

\* C8: an open that fails because the device cannot be opened or an option is
\* rejected returns a failure code, leaves the slot empty, no handle open and
\* no read outstanding.
C8_FailedOpenNoSideEffect ==
    [][\A c \in OpenCases :
          (slot = "nil" /\ OpenRejected(c[1], c[2])
              /\ prSerialPort_Open(c[1], c[2]))
              => /\ ret'.res \in {"errFailed", "errWrongType"}
                 /\ slot' = "nil"
                 /\ handles' = handles
                 /\ UNCHANGED engineVars]_vars

MisuseOp ==
    \/ prSerialPort_Close
    \/ prSerialPort_Cleanup
    \/ prSerialPort_Next
    \/ AnyPut
    \/ prSerialPort_RXErrors

C10_PutSingleAttempt ==
    ret.op = "put"
        => /\ ret.wr.attempts <= 1
           /\ (ret.tag = "true") <=> (ret.wr.attempts = 1 /\ ret.wr.accepted = 1)
           /\ ret.res = "errNone"
                 => (ret.wr.attempts = 1 /\ ret.tag \in {"true", "false"})

C10_Witness ==
    /\ ret.op = "put" /\ ret.res = "errNone"
    /\ ret.wr.accepted = 0 /\ ret.tag = "false"
    /\ ret.wr.byte = 65

\* C11: every byte the handler has taken for the queue is a byte that a
\* completed asynchronous read received from the device, in the position in
\* which it was received; the loop sends nothing to the device.
C11_OnlyInboundBytes ==
    m_port # "none" => (arrived = devGave /\ devTook = <<>>)

\* reads in flight: outstanding, or with their handler running
InFlight == Outstanding + (IF ioPc \in {"idle", "freed"} THEN 0 ELSE 1)
IoStep ==
    \/ \E k \in OpKinds, err \in BOOLEAN, n \in 0..kBufferSize :
          DoReadBegin(k, err, n)
    \/ DoReadPush
    \/ DoReadNotify
    \/ DoReadRearm

\* C12: a handler run arms exactly one read, as its last step and, in the
\* success branch, only after its loop has ended; no step of a handler changes
\* the number of reads in flight, and open leaves none.  So no step other than
\* a startRead() call of the owner takes an engine from at most one read in
\* flight to more: with the loop armed once, at most one read is outstanding
\* in every state and a handler never starts while another one runs.
C12_AtMostOneOutstanding ==
    [][/\ DoReadRearm => /\ Outstanding' = Outstanding + 1
                         /\ ioPc' = "idle"
                         /\ ioPc = "rearm" => ioIdx = ioN
       /\ (IoStep /\ ~DoReadRearm) => Outstanding' <= Outstanding
       /\ IoStep => InFlight' = InFlight
       /\ (m_port = "none" /\ m_port' = "open") => InFlight' = 0
       /\ (InFlight <= 1 /\ ~StartRead) => InFlight' <= 1]_vars

C12_Witness ==
    /\ ioPc = "idle" /\ Outstanding = 1 /\ ops["live"] = 1
    /\ Len(arrived) = MaxArrived /\ Pushed = Len(arrived)

\* C13: once cleanup has released an engine, no completion handler bound to
\* it runs.
C13_NoHandlerAfterCleanup ==
    [][~(\E outcome \in {"ends", "dies"} : DoReadFreed(outcome))]_vars

ErrorCompletion ==
    \E k \in OpKinds, n \in 0..kBufferSize : DoReadBegin(k, TRUE, n)

\* C14: a completion with an error on an engine that is not stopped enqueues
\* nothing, leaves queue and counter as they are, makes no dataAvailable call,
\* raises nothing on the language thread and arms exactly one operation; after
\* that the engine takes the next error completion in the same way.
C14_ErrorAbsorbed ==
    /\ [][/\ (m_port = "open" /\ ErrorCompletion)
                => /\ ioPc' = "error"
                   /\ UNCHANGED <<m_rxfifo, m_rxErrors, arrived, ret, crashed,
                                  gLangMutex, ioCalls>>
          /\ (m_port = "open" /\ ioPc = "error" /\ DoReadRearm)
                => /\ ops'["live"] = ops["live"] + 1
                   /\ Outstanding' = Outstanding + 1
                   /\ ioCalls = 0 /\ ioCalls' = 0
                   /\ UNCHANGED <<m_port, m_rxfifo, m_rxErrors, arrived, ret,
                                  crashed, gLangMutex>>
          /\ (m_port = "open" /\ ioPc = "error" /\ ioPc' = "idle")
                => DoReadRearm]_vars
    /\ [](/\ (ioPc = "error" /\ ~crashed /\ Outstanding < MaxOps)
                => ENABLED DoReadRearm
          /\ (m_port = "open" /\ ioPc = "idle" /\ ops["live"] > 0 /\ ~crashed)
                => ENABLED DoReadBegin("live", TRUE, 0))

C14_Witness ==
    /\ m_port = "open" /\ ioPc = "error" /\ ioErr = "io_error"
    /\ Len(m_rxfifo) = kBufferSize /\ Overflows > 0
    /\ ENABLED DoReadRearm

\* bytes of the completed batches that are accounted for: returned by get,
\* still queued, or counted as overflow
Accounted == Len(readOut) + Len(m_rxfifo) + Overflows

\* C15: in a handler run without error, with any number of bytes including
\* none, the loop first pushes every byte of the batch (or counts it as
\* overflow), then dataAvailable makes its one runInterpreter call, then
\* startRead() is called: no call is made while a byte of the batch is still
\* to be pushed, and none is skipped or repeated.
C15_PushNotifyRearm ==
    /\ [](/\ ioPc \in {"locked", "called", "rearm"}
                => (ioIdx = ioN /\ Accounted = Len(arrived))
          /\ ioPc \in {"idle", "error", "push", "locked"} => ioCalls = 0
          /\ ioPc \in {"called", "rearm"} => ioCalls = 1)
    /\ [][/\ (\E k \in OpKinds, n \in 0..kBufferSize : DoReadBegin(k, FALSE, n))
                => (ioPc' = "push" /\ ioIdx' = 0)
          /\ (ioPc = "push" /\ ioPc' # "push")
                => (DataAvailableLock \/ prSerialPort_Cleanup)
          /\ ioCalls' > ioCalls => (ioIdx = ioN /\ ioCalls' = 1)
          /\ (ioPc = "rearm" /\ DoReadRearm) => ioCalls = 1]_vars

C15_Witness ==
    /\ ioPc = "rearm" /\ ioN = 0 /\ ioCalls = 1
    /\ m_port = "open" /\ Len(arrived) = 0

\* C16: runInterpreter is called only while the io thread holds gLangMutex;
\* dataAvailable releases the mutex before doRead calls startRead(), and the
\* io thread holds it in no other part of the handler, so no asynchronous
\* operation is started or completed by the io thread with the mutex held.
C16_CallbackUnderLock ==
    /\ []((gLangMutex = "io") <=> (ioPc \in {"locked", "called"}))
    /\ [][/\ ioCalls' > ioCalls => (gLangMutex = "io" /\ gLangMutex' = "io")
          /\ DataAvailableUnlock => (gLangMutex = "io" /\ gLangMutex' = "free")
          /\ DoReadRearm => (gLangMutex = "free" /\ gLangMutex' = "free")
          /\ (IoStep /\ ops' # ops) => gLangMutex = "free"]_vars

C16_Witness ==
    /\ ioPc = "rearm" /\ gLangMutex = "free" /\ ioCalls = 1 /\ m_obj = "obj"
    /\ ioN = kBufferSize /\ ENABLED DoReadRearm

\* C17: next on an engine never waits; on an empty queue it returns nil and
\* changes nothing of the engine; on a non-empty queue it returns the oldest
\* byte and removes exactly that one; both leave m_rxErrors and the read loop
\* (port, outstanding operations, handler position) as they are.
C17_NextPopsOldest ==
    /\ [][(slot = "ptr" /\ prSerialPort_Next)
             => /\ ret'.res = "errNone"
                /\ IF m_rxfifo = <<>>
                      THEN /\ ret'.tag = "nil"
                           /\ UNCHANGED <<engineVars, ioVars, hostVars>>
                      ELSE /\ ret'.tag = "int"
                           /\ ret'.val = Head(m_rxfifo)
                           /\ m_rxfifo' = Tail(m_rxfifo)
                /\ UNCHANGED <<m_rxErrors, m_port, ops, m_rxbuffer, ioVars,
                               hostVars>>]_vars
    /\ []((slot = "ptr" /\ LangThreadRuns) => ENABLED prSerialPort_Next)

C17_Witness ==
    /\ ret.op = "next" /\ ret.tag = "int"
    /\ Len(readOut) = 1 /\ readOut[1] = ret.val
    /\ Len(m_rxfifo) = 1 /\ m_rxfifo[1] # ret.val
    /\ Overflows > 0

\* C18: in every state of an engine the queue holds between 0 and kBufferSize
\* bytes, and the bytes of the completed batches that the loop has reached
\* are the bytes returned by get plus the bytes queued plus the overflow
\* events counted since construction.
C18_ByteConservation ==
    m_port # "none"
        => /\ Len(m_rxfifo) >= 0 /\ Len(m_rxfifo) <= kBufferSize
           /\ Pushed = Accounted
           /\ ioPc # "push" => Len(arrived) = Accounted

C18_Witness ==
    /\ m_port # "none" /\ ioPc = "idle"
    /\ Len(readOut) >= 1 /\ Len(m_rxfifo) >= 1 /\ Overflows >= 1
    /\ Len(arrived) = MaxArrived

\* C19: open on a host object whose slot holds an engine, closed or not,
\* returns errFailed and leaves slot, engine and device handles as they are;
\* an open succeeds only on an empty slot, and only cleanup empties the slot.
C19_OpenOnHeldSlotFails ==
    [][/\ \A c \in OpenCases :
             (slot = "ptr" /\ prSerialPort_Open(c[1], c[2]))
                 => /\ ret'.res = "errFailed"
                    /\ UNCHANGED <<slot, engineVars, handles, ioVars>>
       /\ \A c \in OpenCases :
             (prSerialPort_Open(c[1], c[2]) /\ ret'.res = "errNone")
                 => slot = "nil"
       /\ (slot = "ptr" /\ slot' = "nil") => prSerialPort_Cleanup]_vars

C19_Witness ==
    /\ ret.op = "open" /\ ret.res = "errFailed"
    /\ slot = "ptr" /\ m_port = "closed" /\ handles = 0

\* C20: an open on an empty slot with parity code 0 stores parity none, 1
\* even, 2 odd and any other code none; it stores two stop bits when the
\* stop-bit argument is true and one otherwise, software flow control when the
\* xonxoff argument is true and hardware otherwise; and it returns errNone
\* whatever the parity code is.
C20_OptionMapping ==
    [][\A a \in OptionArgs :
          (slot = "nil" /\ prSerialPort_Open(a, GoodEnv))
              => /\ ret'.res = "errNone"
                 /\ m_options'.parity =
                       (IF a.parity = 1 THEN "even"
                        ELSE IF a.parity = 2 THEN "odd" ELSE "none")
                 /\ m_options'.stop_bits = (IF a.stopTwo THEN "two" ELSE "one")
                 /\ m_options'.flow_control =
                       (IF a.xonxoff THEN "software" ELSE "hardware")]_vars

C20_Witness ==
    /\ ret.op = "open" /\ ret.res = "errNone" /\ m_port = "open"
    /\ m_options = [stop_bits |-> "one", parity |-> "odd",
                    flow_control |-> "software"]

====
